---- MODULE Spec2Model ----
(***************************************************************************)
(* State-machine model of the VR panorama viewer (src/src/main.ts), its    *)
(* preloader (src/src/panoramaPreloader.ts) and the preload worker         *)
(* (src/src/panoramaPreloader.worker.ts).                                  *)
(*                                                                         *)
(* JavaScript handlers run to completion: loadPanorama contains no await,  *)
(* so it is modelled as three consecutive steps guarded by pc, and no      *)
(* other handler is enabled while pc # "idle".  The worker's preloadImages *)
(* suspends at `await fetch`, so several invocations interleave there.     *)
(*                                                                         *)
(* The XR session handlers, the frame check and the VR emulation are       *)
(* operators on a record of the fields they touch, because they call each  *)
(* other (onEnterVR renders the scene, which runs the frame check).        *)
(* Spec is the viewer alone, PreloadSpec adds worker and preloader to the  *)
(* start-up, NavPreloadSpec adds navigation between finished preloads,     *)
(* SessionSpec adds XR sessions and emulation to the viewer.               *)
(***************************************************************************)
EXTENDS Integers, Sequences, FiniteSets, TLC

\* ---------------------------------------------------------------- bounds
MaxNav == 2        \* hotspot picks explored after start-up
MaxSessionNav == 1 \* navigations explored together with XR sessions
MaxInbox == 2      \* worker->main messages allowed to wait unhandled
MaxFail == 1       \* fetches allowed to fail
MaxEvents == 2     \* XR sessions and emulation entries explored

\* ------------------------------------------------------ program constants
Capacity == 8      \* documented texture maximum

\* ------------------------------------------------------------ node graph
Nodes == {"A", "B", "C"}

StartNode == "A"

StartLabel == "Drehgestelllager"

Link(t, l) == [to |-> t, label |-> l]

\* panoramaData after a successful load: links of each node, in order.
\* "Z" is a dangling target, A links to itself, C has no link back to A.
LinksOf(n) ==
  CASE n = "A" -> << Link("B", "lblB"), Link("C", "lblC"), Link("A", "lblA"),
                     Link("Z", "lblZ") >>
    [] n = "B" -> << Link("C", "lblC"), Link("A", "lblA") >>
    [] n = "C" -> << Link("B", "lblB") >>
    [] OTHER   -> << >>

\* ------------------------------------------------------------------ URLs
Url(o, n, s) == [origin |-> o, img |-> n, sfx |-> s]

NoUrl == Url(FALSE, "none", "none")

NoDome == [node |-> "none", url |-> NoUrl, tex |-> "none"]

NoUI == [exists |-> FALSE, isVisible |-> FALSE, isHitTestVisible |-> FALSE]

NoNav == [from |-> "none", to |-> "none", rapid |-> FALSE,
          prevFrom |-> "none", prevTo |-> "none", outcome |-> "none"]

VARIABLES
  dataLoaded,            \* panoramaData is the graph (TRUE) or still {} (FALSE)
  initState,             \* "boot" | "loading" | "done": progress of init();
                         \* "disposed" after the page's beforeunload
  currentPanorama,
  currentPhotoDome,      \* NoDome or [node, url, tex]
  hotspots,              \* links that have a hotspot mesh, in creation order
  currentLocationLabel,
  isVRActive,
  isMobile,              \* navigator.userAgent test, fixed per run
  pc,                    \* position inside loadPanorama
  loadArg,               \* panoramaId of the loadPanorama in progress
  caller,                \* "init" | "nav": who awaits the loadPanorama
  navCount,
  nav,                   \* history: the last navigateToPanorama call
  preloadedImages,       \* PanoramaPreloader.preloadedImages (its key set)
  preloadOrder,          \* the keys of that Map in insertion order
  objectUrls,            \* object URLs created and not revoked
  callbackOwner,         \* request whose callbacks the preloader holds
  nextReq,               \* number of startPreloading calls so far
  workerInbox,           \* main -> worker messages not yet delivered
  tasks,                 \* suspended preloadImages invocations
  imageCache,            \* worker imageCache (its key set)
  mainInbox,             \* worker -> main messages not yet handled
  fetchFailures,         \* history: number of fetches that failed
  xrSetup,               \* "pending" | "ok" | "failed": setupWebXR, then setupUI
  xrState,               \* WebXRState of the experience helper
  inXRSession,           \* sessionManager.inXRSession
  sessionVisible,        \* session.visibilityState is 'visible'
  sessionListeners,      \* a session carries the 'visibilitychange' listener
  isVREmulationMode,
  desktopUI,             \* NoUI or [exists, isVisible, isHitTestVisible]
  vrCaption,             \* vrCaptionContainer, vrCaptionUI and observer are set
  captionContainers,     \* undisposed vrCaptionContainer nodes in the scene
  captionObservers,      \* registered caption before-render callbacks
  floorplanUI,           \* floorplanUI and floorplanContainer are set
  floorplanContainers,   \* undisposed floorplanContainer nodes in the scene
  floorplanUpdateObserver,
  markerCurrent,         \* node the floorplan markers show as current
  evCount,               \* XR and emulation entries so far
  interrupted            \* history: a session-state change hit this transition

uiVars == << isVREmulationMode, desktopUI, vrCaption, captionContainers,
             captionObservers, floorplanUI, floorplanContainers,
             floorplanUpdateObserver, markerCurrent >>

xrVars == << xrSetup, xrState, inXRSession, sessionVisible, sessionListeners,
            evCount >>

sessionVars == << uiVars, xrVars, interrupted >>

vars == << dataLoaded, initState, currentPanorama, currentPhotoDome, hotspots,
           currentLocationLabel, isVRActive, isMobile, pc, loadArg, caller,
           navCount, nav, preloadedImages, preloadOrder, objectUrls,
           callbackOwner, nextReq,
           workerInbox, tasks, imageCache, mainInbox, fetchFailures,
           sessionVars >>

viewerVars == << dataLoaded, initState, currentPanorama, currentPhotoDome,
                 hotspots, currentLocationLabel, isVRActive, isMobile, pc,
                 loadArg, caller, navCount, nav >>

preloaderVars == << preloadedImages, preloadOrder, objectUrls, callbackOwner >>

workerVars == << tasks, imageCache, mainInbox, fetchFailures >>

\* --------------------------------------------------------- pure helpers
\* a lookup that finds an entry for every id once the data is loaded
HasNode_anyId(id) == dataLoaded

\* this.panoramaData[id] is defined
HasNode(id) == dataLoaded /\ id \in Nodes

\* loadPanorama, choice of imageSuffix
ImageSuffix(mobile, vr) ==
  IF mobile /\ ~vr THEN "_mobile.jpg"
  ELSE IF vr THEN "_hq.jpg"
  ELSE "_std.jpg"

\* loadPanorama, imagePath: base path without origin
ImagePath(id, mobile, vr) == Url(FALSE, id, ImageSuffix(mobile, vr))

\* PanoramaPreloader.getPreloadedImage: object URL of an exact key match
GetPreloadedImage(u) == IF u \in preloadedImages THEN [u EXCEPT !.sfx = "blob"] ELSE NoUrl

\* a preload list that stops after the first link
ConnectedImages_firstLinkOnly(links, i) ==
  IF i > 1 \/ i > Len(links) \/ ~HasNode(links[i].to) THEN << >>
  ELSE << Url(TRUE, links[i].to, "_std.jpg"),
          Url(TRUE, links[i].to, "_mobile.jpg"),
          Url(TRUE, links[i].to, ".jpg") >>

RECURSIVE ConnectedImages(_, _)
\* preloadConnectedPanoramas: three absolute URLs per link with a known target
ConnectedImages(links, i) ==
  IF i > Len(links) THEN << >>
  ELSE (IF HasNode(links[i].to)
          THEN << Url(TRUE, links[i].to, "_std.jpg"),
                  Url(TRUE, links[i].to, "_mobile.jpg"),
                  Url(TRUE, links[i].to, ".jpg") >>
          ELSE << >>) \o ConnectedImages(links, i + 1)

\* preloadConnectedPanoramas + PanoramaPreloader.startPreloading, as the
\* effect on << workerInbox, nextReq, callbackOwner >>
PreloadConnected(st, id) ==
  LET imgs == IF HasNode(id) THEN ConnectedImages(LinksOf(id), 1) ELSE << >>
  IN IF Len(imgs) > 0
       THEN [inbox |-> Append(st.inbox, [req |-> st.next + 1, images |-> imgs]),
             next  |-> st.next + 1,
             owner |-> st.next + 1]
       ELSE st

PreState == [inbox |-> workerInbox, next |-> nextReq, owner |-> callbackOwner]

\* startBackgroundPreloading, run by init() right after its loadPanorama;
\* cur is this.currentPanorama at that moment
StartBackgroundPreloading(st, cur) ==
  IF ~dataLoaded THEN st ELSE PreloadConnected(st, cur)

\* what follows the awaited loadPanorama in its caller: init() goes on with
\* startBackgroundPreloading, navigateToPanorama just returns
Continuation(st, cur) ==
  IF caller = "init" THEN StartBackgroundPreloading(st, cur) ELSE st

\* a navigation whose dome has not finished loading its texture, or whose
\* loadPanorama is still running
Transitioning ==
  pc # "idle" \/ currentPhotoDome.tex = "loading"

\* ------------------------------------------------- VR and emulation UI
\* the fields the session handlers read and write, as one record;
\* enterCalls counts the onEnterVR invocations of the handler being run
UI ==
  [isVRActive |-> isVRActive, isVREmulationMode |-> isVREmulationMode,
   desktopUI |-> desktopUI, vrCaption |-> vrCaption,
   captionContainers |-> captionContainers,
   captionObservers |-> captionObservers, floorplanUI |-> floorplanUI,
   floorplanContainers |-> floorplanContainers,
   floorplanUpdateObserver |-> floorplanUpdateObserver,
   markerCurrent |-> markerCurrent,
   inXRSession |-> inXRSession, xrSetup |-> xrSetup,
   enterCalls |-> 0]

\* the handlers' writes become the next state
SetUI(s) ==
  /\ isVRActive' = s.isVRActive
  /\ isVREmulationMode' = s.isVREmulationMode
  /\ desktopUI' = s.desktopUI
  /\ vrCaption' = s.vrCaption
  /\ captionContainers' = s.captionContainers
  /\ captionObservers' = s.captionObservers
  /\ floorplanUI' = s.floorplanUI
  /\ floorplanContainers' = s.floorplanContainers
  /\ floorplanUpdateObserver' = s.floorplanUpdateObserver
  /\ markerCurrent' = s.markerCurrent

\* disposeVRCaption: unregisters and disposes what the fields refer to
disposeVRCaption(s) ==
  IF s.vrCaption
    THEN [s EXCEPT !.vrCaption = FALSE,
                   !.captionContainers = @ - 1,
                   !.captionObservers = @ - 1]
    ELSE s

\* a new container, texture and before-render callback stored in the fields;
\* whatever the fields referred to before stays in the scene
NewVRCaption(s) ==
  [s EXCEPT !.vrCaption = TRUE,
            !.captionContainers = @ + 1,
            !.captionObservers = @ + 1]

\* setupVRCaption
setupVRCaption(s) == IF ~s.isVRActive THEN s ELSE NewVRCaption(s)

\* updateVRCaption: dispose, then build again
updateVRCaption(s) ==
  IF ~s.isVRActive THEN s ELSE NewVRCaption(disposeVRCaption(s))

\* setupVRCaptionEmulation: dispose, then build again
setupVRCaptionEmulation(s) == NewVRCaption(disposeVRCaption(s))

\* addFloorplanPositionMarkersWithBlending: the old markers are cleared and
\* one marker per panorama is created; each captures whether it is cur
addFloorplanPositionMarkers(s, cur) ==
  [s EXCEPT !.markerCurrent = IF dataLoaded THEN cur ELSE "none"]

\* updateFloorplan and updateFloorplanMarkers
updateFloorplan(s, cur) ==
  IF ~s.floorplanUI \/ (~s.isVRActive /\ ~s.isVREmulationMode) THEN s
  ELSE IF ~HasNode(cur) THEN s
  ELSE addFloorplanPositionMarkers(s, cur)

\* a new floorplan container and texture stored in the fields, with markers
\* and the (single) update observer; the previous container is not disposed
NewFloorplan(s, cur) ==
  updateFloorplan(
    [addFloorplanPositionMarkers(
       [s EXCEPT !.floorplanUI = TRUE, !.floorplanContainers = @ + 1], cur)
     EXCEPT !.floorplanUpdateObserver = TRUE],
    cur)

\* setupFloorplanUI
setupFloorplanUI(s, cur) == IF ~s.isVRActive THEN s ELSE NewFloorplan(s, cur)

\* setupFloorplanUIEmulation
setupFloorplanUIEmulation(s, cur) == NewFloorplan(s, cur)

\* disposeFloorplanUI
disposeFloorplanUI(s) ==
  [s EXCEPT !.markerCurrent = "none",
            !.floorplanUpdateObserver = FALSE,
            !.floorplanUI = FALSE,
            !.floorplanContainers = IF s.floorplanUI THEN @ - 1 ELSE @]

\* onExitVR
onExitVR(s) ==
  LET s1 == disposeVRCaption(disposeFloorplanUI(s))
  IN IF s1.desktopUI.exists
       THEN [s1 EXCEPT !.desktopUI.isVisible = TRUE,
                       !.desktopUI.isHitTestVisible = TRUE]
       ELSE s1

\* an onEnterVR that hides the desktop UI only when it is called again
HideDesktopUI_onSecondCall(s) ==
  IF s.desktopUI.exists /\ s.enterCalls >= 2
    THEN [s EXCEPT !.desktopUI.isVisible = FALSE,
                   !.desktopUI.isHitTestVisible = FALSE]
    ELSE s

\* onEnterVR, first part: hide the desktop UI when it exists
HideDesktopUI(s) ==
  IF s.desktopUI.exists
    THEN [s EXCEPT !.desktopUI.isVisible = FALSE,
                   !.desktopUI.isHitTestVisible = FALSE]
    ELSE s

RECURSIVE onEnterVR(_, _)
RECURSIVE FrameCheck(_, _)
\* scene.render(): the before-render callbacks run; the frame check is one
\* of them once setupWebXR has registered it
Render(s, cur) == IF s.xrSetup = "ok" THEN FrameCheck(s, cur) ELSE s

\* a frame check that only ever corrects towards VR
FrameCheck_entersOnly(s, cur) ==
  IF s.inXRSession
    THEN LET s1 == IF ~s.isVRActive
                     THEN onEnterVR([s EXCEPT !.isVRActive = TRUE], cur)
                     ELSE s
         IN IF s1.desktopUI.exists /\ s1.desktopUI.isVisible
              THEN onEnterVR(s1, cur)
              ELSE s1
    ELSE s

\* a frame check without the look at the desktop UI
FrameCheck_flagOnly(s, cur) ==
  IF s.inXRSession
    THEN IF ~s.isVRActive
           THEN onEnterVR([s EXCEPT !.isVRActive = TRUE], cur)
           ELSE s
    ELSE IF s.isVRActive
           THEN onExitVR([s EXCEPT !.isVRActive = FALSE])
           ELSE s

\* the per-frame validation registered by setupWebXR
FrameCheck(s, cur) ==
  IF s.inXRSession
    THEN LET s1 == IF ~s.isVRActive
                     THEN onEnterVR([s EXCEPT !.isVRActive = TRUE], cur)
                     ELSE s
         IN IF s1.desktopUI.exists /\ s1.desktopUI.isVisible
              THEN onEnterVR(s1, cur)
              ELSE s1
    ELSE IF s.isVRActive
           THEN onExitVR([s EXCEPT !.isVRActive = FALSE])
           ELSE s

\* onEnterVR: hide the desktop UI, build caption and floorplan, refresh the
\* material of an existing dome (no state of this model), render once
onEnterVR(s, cur) ==
  LET s0 == [s EXCEPT !.enterCalls = @ + 1]
  IN Render(setupFloorplanUI(setupVRCaption(HideDesktopUI(s0)), cur), cur)

\* enterVREmulation
enterVREmulation(s, cur) ==
  LET s1 == [s EXCEPT !.isVREmulationMode = TRUE,
                      !.desktopUI.isVisible = FALSE]
  IN Render(setupFloorplanUIEmulation(setupVRCaptionEmulation(s1), cur), cur)

\* exitVREmulation
exitVREmulation(s) ==
  LET s1 == [s EXCEPT !.isVREmulationMode = FALSE,
                      !.desktopUI.isVisible = s.desktopUI.exists]
  IN disposeFloorplanUI(disposeVRCaption(s1))

\* toggleVREmulation
toggleVREmulation(s, cur) ==
  IF ~s.isVREmulationMode THEN enterVREmulation(s, cur) ELSE exitVREmulation(s)

\* onStateChangedObservable handler
onStateChanged(s, state, cur) ==
  IF state \in {"ENTERING_XR", "IN_XR"}
    THEN IF ~s.isVRActive /\ s.inXRSession
           THEN onEnterVR([s EXCEPT !.isVRActive = TRUE], cur)
           ELSE s
    ELSE IF s.isVRActive /\ ~s.inXRSession
           THEN onExitVR([s EXCEPT !.isVRActive = FALSE])
           ELSE s

\* onXRSessionInit handler
onXRSessionInit(s, cur) ==
  IF s.inXRSession THEN onEnterVR([s EXCEPT !.isVRActive = TRUE], cur) ELSE s

\* a listener that leaves VR when the session is hidden
onVisibilityChange_exitsOnHidden(s, visible, cur) ==
  IF visible /\ ~s.isVRActive
    THEN onEnterVR([s EXCEPT !.isVRActive = TRUE], cur)
    ELSE IF ~visible /\ s.isVRActive
           THEN onExitVR([s EXCEPT !.isVRActive = FALSE])
           ELSE s

\* 'visibilitychange' listener of the session
onVisibilityChange(s, visible, cur) ==
  IF visible /\ ~s.isVRActive
    THEN onEnterVR([s EXCEPT !.isVRActive = TRUE], cur)
    ELSE s

\* 'end' listener of the session
onSessionEnd(s) == onExitVR([s EXCEPT !.isVRActive = FALSE])

\* onXRSessionEnded handler
onXRSessionEnded(s) ==
  IF s.isVRActive THEN onExitVR([s EXCEPT !.isVRActive = FALSE]) ELSE s

\* a loadPanorama that waits for the preload request it posted
AfterPreloadPosted_awaits(st) ==
  IF st.inbox # << >> THEN "preloading" ELSE "idle"

\* pc after preloadConnectedPanoramas: startPreloading posts the request to
\* the worker and returns, and so does loadPanorama
AfterPreloadPosted(st) == "idle"

\* a catch block that never lets loadPanorama return
AfterThrow_stuck == "stuck"

\* pc after loadPanorama's catch block: the function simply ends
AfterThrow == "idle"

\* ------------------------------------------------------------------ Init
Init ==
  /\ dataLoaded = FALSE
  /\ initState = "boot"
  /\ currentPanorama = StartNode
  /\ currentPhotoDome = NoDome
  /\ hotspots = << >>
  /\ currentLocationLabel = StartLabel
  /\ isVRActive = FALSE
  /\ isMobile \in BOOLEAN
  /\ pc = "idle"
  /\ loadArg = "none"
  /\ caller = "none"
  /\ navCount = 0
  /\ nav = NoNav
  /\ preloadedImages = {}
  /\ preloadOrder = << >>
  /\ objectUrls = 0
  /\ callbackOwner = 0
  /\ nextReq = 0
  /\ workerInbox = << >>
  /\ tasks = {}
  /\ imageCache = {}
  /\ mainInbox = << >>
  /\ fetchFailures = 0
  /\ xrSetup = "pending"
  /\ xrState = "NOT_IN_XR"
  /\ inXRSession = FALSE
  /\ sessionVisible = FALSE
  /\ sessionListeners = FALSE
  /\ isVREmulationMode = FALSE
  /\ desktopUI = NoUI
  /\ vrCaption = FALSE
  /\ captionContainers = 0
  /\ captionObservers = 0
  /\ floorplanUI = FALSE
  /\ floorplanContainers = 0
  /\ floorplanUpdateObserver = FALSE
  /\ markerCurrent = "none"
  /\ evCount = 0
  /\ interrupted = FALSE

\* --------------------------------------------------------- viewer actions
\* init(): loadPanoramaData resolves (ok) or fails (caught, data stays {}),
\* then loadPanorama(currentPanorama) starts: lookup and clearScene.
InitViewer(ok) ==
  /\ initState = "boot"
  /\ pc = "idle"
  /\ dataLoaded' = ok
  /\ IF ok /\ StartNode \in Nodes
       THEN /\ currentPhotoDome' = NoDome
            /\ hotspots' = << >>
            /\ pc' = "cleared"
            /\ loadArg' = currentPanorama
            /\ caller' = "init"
            /\ initState' = "loading"
       ELSE /\ initState' = "done"
            /\ UNCHANGED << currentPhotoDome, hotspots, pc, loadArg, caller >>
  /\ UNCHANGED << currentPanorama, currentLocationLabel, isVRActive, isMobile,
                  navCount, nav >>
  /\ UNCHANGED << preloaderVars, nextReq, workerInbox, workerVars >>
  /\ UNCHANGED sessionVars

\* OnPickTrigger of hotspot i: store the label, navigateToPanorama(link.to),
\* which is loadPanorama(link.to) up to and including clearScene.
HotspotPick(i) ==
  /\ pc = "idle"
  /\ i \in 1..Len(hotspots)
  /\ navCount < MaxNav
  /\ LET link == hotspots[i]
         found == HasNode(link.to)
     IN /\ currentLocationLabel' = link.label
        /\ navCount' = navCount + 1
        /\ nav' = [from |-> currentPanorama, to |-> link.to,
                   rapid |-> Transitioning,
                   prevFrom |-> nav.from, prevTo |-> nav.to,
                   outcome |-> IF found THEN "pending" ELSE "notfound"]
        /\ IF found
             THEN /\ currentPhotoDome' = NoDome
                  /\ hotspots' = << >>
                  /\ pc' = "cleared"
                  /\ loadArg' = link.to
                  /\ caller' = "nav"
                  /\ interrupted' = FALSE
             ELSE UNCHANGED << currentPhotoDome, hotspots, pc, loadArg, caller,
                               interrupted >>
  /\ UNCHANGED << dataLoaded, initState, currentPanorama, isVRActive, isMobile >>
  /\ UNCHANGED << preloaderVars, nextReq, workerInbox, workerVars >>
  /\ UNCHANGED << uiVars, xrVars >>

\* loadPanorama: choose the image path, look it up in the preloader and
\* construct the PhotoDome; the constructor may throw into the catch block.
LoadPanoramaDome(threw) ==
  /\ pc = "cleared"
  /\ IF threw
       THEN LET st == Continuation(PreState, currentPanorama)
            IN /\ pc' = AfterThrow
               /\ nav' = IF caller = "nav" THEN [nav EXCEPT !.outcome = "threw"] ELSE nav
               /\ initState' = IF caller = "init" THEN "done" ELSE initState
               /\ workerInbox' = st.inbox
               /\ nextReq' = st.next
               /\ callbackOwner' = st.owner
               /\ UNCHANGED currentPhotoDome
       ELSE LET imagePath == ImagePath(loadArg, isMobile, isVRActive)
                preloadedUrl == GetPreloadedImage(imagePath)
                finalImagePath == IF preloadedUrl # NoUrl THEN preloadedUrl ELSE imagePath
            IN /\ currentPhotoDome' = [node |-> loadArg, url |-> finalImagePath,
                                       tex |-> "loading"]
               /\ pc' = "built"
               /\ UNCHANGED << nav, initState, workerInbox, nextReq, callbackOwner >>
  /\ UNCHANGED << dataLoaded, currentPanorama, hotspots, currentLocationLabel,
                  isVRActive, isMobile, loadArg, caller, navCount >>
  /\ UNCHANGED << preloadedImages, preloadOrder, objectUrls, workerVars >>
  /\ UNCHANGED sessionVars

\* loadPanorama after the dome exists: move the cursor, create the hotspots
\* of every link, refresh the UI and post the preload of the neighbours.
LoadPanoramaCommit ==
  /\ pc = "built"
  /\ currentPanorama' = loadArg
  /\ hotspots' = LinksOf(loadArg)
  /\ LET st == Continuation(PreloadConnected(PreState, loadArg), loadArg)
     IN /\ workerInbox' = st.inbox
        /\ nextReq' = st.next
        /\ callbackOwner' = st.owner
        /\ pc' = AfterPreloadPosted(st)
  /\ nav' = IF caller = "nav" THEN [nav EXCEPT !.outcome = "loaded"] ELSE nav
  /\ initState' = IF caller = "init" THEN "done" ELSE initState
  /\ SetUI(updateVRCaption(updateFloorplan(UI, loadArg)))
  /\ UNCHANGED << dataLoaded, currentPhotoDome, currentLocationLabel,
                  isMobile, loadArg, caller, navCount >>
  /\ UNCHANGED << preloadedImages, preloadOrder, objectUrls, workerVars >>
  /\ UNCHANGED << xrVars, interrupted >>

\* the texture of the current dome finishes loading
DomeTextureLoaded ==
  /\ pc = "idle"
  /\ currentPhotoDome.tex = "loading"
  /\ currentPhotoDome' = [currentPhotoDome EXCEPT !.tex = "ok"]
  /\ UNCHANGED << dataLoaded, initState, currentPanorama, hotspots,
                  currentLocationLabel, isVRActive, isMobile, pc, loadArg,
                  caller, navCount, nav >>
  /\ UNCHANGED << preloaderVars, nextReq, workerInbox, workerVars >>
  /\ UNCHANGED sessionVars

\* the texture of the current dome fails to load; nothing listens for it
DomeTextureError ==
  /\ pc = "idle"
  /\ currentPhotoDome.tex = "loading"
  /\ currentPhotoDome' = [currentPhotoDome EXCEPT !.tex = "failed"]
  /\ UNCHANGED << dataLoaded, initState, currentPanorama, hotspots,
                  currentLocationLabel, isVRActive, isMobile, pc, loadArg,
                  caller, navCount, nav >>
  /\ UNCHANGED << preloaderVars, nextReq, workerInbox, workerVars >>
  /\ UNCHANGED sessionVars

\* a marker click that moves the cursor at once, before anything is loaded
MarkerClick_movesCursor(n) ==
  /\ pc = "idle"
  /\ markerCurrent # "none"
  /\ n \in Nodes
  /\ n # markerCurrent
  /\ navCount < MaxNav
  /\ navCount' = navCount + 1
  /\ currentPanorama' = n
  /\ nav' = [from |-> currentPanorama, to |-> n, rapid |-> Transitioning,
             prevFrom |-> nav.from, prevTo |-> nav.to, outcome |-> "pending"]
  /\ currentPhotoDome' = NoDome
  /\ hotspots' = << >>
  /\ pc' = "cleared"
  /\ loadArg' = n
  /\ caller' = "nav"
  /\ interrupted' = FALSE
  /\ UNCHANGED << dataLoaded, initState, currentLocationLabel, isVRActive, isMobile >>
  /\ UNCHANGED << preloaderVars, nextReq, workerInbox, workerVars >>
  /\ UNCHANGED << uiVars, xrVars >>

\* click on the floorplan marker of panorama n: markers built while n was
\* current ignore it, the others call navigateToPanorama(n)
MarkerClick(n) ==
  /\ pc = "idle"
  /\ markerCurrent # "none"
  /\ n \in Nodes
  /\ n # markerCurrent
  /\ navCount < MaxNav
  /\ navCount' = navCount + 1
  /\ nav' = [from |-> currentPanorama, to |-> n, rapid |-> Transitioning,
             prevFrom |-> nav.from, prevTo |-> nav.to,
             outcome |-> IF HasNode(n) THEN "pending" ELSE "notfound"]
  /\ IF HasNode(n)
       THEN /\ currentPhotoDome' = NoDome
            /\ hotspots' = << >>
            /\ pc' = "cleared"
            /\ loadArg' = n
            /\ caller' = "nav"
            /\ interrupted' = FALSE
       ELSE UNCHANGED << currentPhotoDome, hotspots, pc, loadArg, caller,
                         interrupted >>
  /\ UNCHANGED << dataLoaded, initState, currentPanorama, currentLocationLabel,
                  isVRActive, isMobile >>
  /\ UNCHANGED << preloaderVars, nextReq, workerInbox, workerVars >>
  /\ UNCHANGED << uiVars, xrVars >>

\* -------------------------------------------------------- session actions
\* what no session handler touches
NoViewerChange ==
  /\ UNCHANGED << dataLoaded, initState, currentPanorama, currentPhotoDome,
                  hotspots, currentLocationLabel, isMobile, pc, loadArg,
                  caller, navCount, nav >>
  /\ UNCHANGED << preloaderVars, nextReq, workerInbox, workerVars >>

\* init() after its loadPanorama: setupWebXR resolves (ok: the handlers and
\* the frame check are registered) or gives up, setupUI creates the desktop
\* UI, the render loop starts
InitFinish(ok) ==
  /\ initState = "done"
  /\ xrSetup = "pending"
  /\ pc = "idle"
  /\ xrSetup' = IF ok THEN "ok" ELSE "failed"
  /\ desktopUI' = [exists |-> TRUE, isVisible |-> TRUE, isHitTestVisible |-> TRUE]
  /\ NoViewerChange
  /\ UNCHANGED << isVRActive, isVREmulationMode, vrCaption, captionContainers,
                  captionObservers, floorplanUI, floorplanContainers,
                  floorplanUpdateObserver, markerCurrent >>
  /\ UNCHANGED << xrState, inXRSession, sessionVisible, sessionListeners,
                  evCount, interrupted >>

\* the experience helper changes its state and notifies the observer:
\* entering on request, in XR once the session runs, exiting on request,
\* back to not-in-XR when the session request is refused
XRStateChanged(state) ==
  /\ xrSetup = "ok"
  /\ pc = "idle"
  /\ \/ state = "ENTERING_XR" /\ xrState = "NOT_IN_XR" /\ evCount < MaxEvents
     \/ state = "IN_XR" /\ xrState = "ENTERING_XR" /\ inXRSession
     \/ state = "EXITING_XR" /\ xrState = "IN_XR"
     \/ state = "NOT_IN_XR" /\ xrState = "ENTERING_XR" /\ ~inXRSession
  /\ xrState' = state
  /\ evCount' = IF state = "ENTERING_XR" THEN evCount + 1 ELSE evCount
  /\ SetUI(onStateChanged(UI, state, currentPanorama))
  /\ interrupted' = (interrupted \/ Transitioning)
  /\ NoViewerChange
  /\ UNCHANGED << xrSetup, inXRSession, sessionVisible, sessionListeners >>

\* the requested session starts: onXRSessionInit runs
XRSessionInit ==
  /\ xrSetup = "ok"
  /\ pc = "idle"
  /\ xrState = "ENTERING_XR"
  /\ ~inXRSession
  /\ inXRSession' = TRUE
  /\ sessionVisible' = TRUE
  /\ sessionListeners' = TRUE
  /\ SetUI(onXRSessionInit([UI EXCEPT !.inXRSession = TRUE], currentPanorama))
  /\ interrupted' = (interrupted \/ Transitioning)
  /\ NoViewerChange
  /\ UNCHANGED << xrSetup, xrState, evCount >>

\* the session's visibilityState changes: 'visibilitychange' listener
SessionVisibility(visible) ==
  /\ pc = "idle"
  /\ inXRSession
  /\ visible # sessionVisible
  /\ sessionVisible' = visible
  /\ SetUI(onVisibilityChange(UI, visible, currentPanorama))
  /\ interrupted' = (interrupted \/ Transitioning)
  /\ NoViewerChange
  /\ UNCHANGED << xrSetup, xrState, inXRSession, sessionListeners, evCount >>

\* a 'visibilitychange' event of a session that has ended, reporting
\* 'visible': the listener stays registered on the session object and does
\* not ask the session manager
LateVisibility ==
  /\ pc = "idle"
  /\ sessionListeners
  /\ ~inXRSession
  /\ SetUI(onVisibilityChange(UI, TRUE, currentPanorama))
  /\ interrupted' = (interrupted \/ Transitioning)
  /\ NoViewerChange
  /\ UNCHANGED xrVars

\* the session ends: its 'end' listener runs, then the session manager
\* clears inXRSession and notifies onXRSessionEnded, then the experience
\* helper reports NOT_IN_XR
SessionEnd ==
  /\ pc = "idle"
  /\ inXRSession
  /\ inXRSession' = FALSE
  /\ sessionVisible' = FALSE
  /\ xrState' = "NOT_IN_XR"
  /\ LET s1 == onSessionEnd(UI)
         s2 == onXRSessionEnded([s1 EXCEPT !.inXRSession = FALSE])
     IN SetUI(onStateChanged(s2, "NOT_IN_XR", currentPanorama))
  /\ interrupted' = (interrupted \/ Transitioning)
  /\ NoViewerChange
  /\ UNCHANGED << xrSetup, sessionListeners, evCount >>

\* one frame of the render loop
RenderFrame ==
  /\ xrSetup # "pending"
  /\ pc = "idle"
  /\ SetUI(Render(UI, currentPanorama))
  /\ NoViewerChange
  /\ UNCHANGED << xrVars, interrupted >>

\* the 'V' key: toggleVREmulation
KeyV ==
  /\ pc = "idle"
  /\ isVREmulationMode \/ evCount < MaxEvents
  /\ evCount' = IF isVREmulationMode THEN evCount ELSE evCount + 1
  /\ SetUI(toggleVREmulation(UI, currentPanorama))
  /\ NoViewerChange
  /\ UNCHANGED << xrSetup, xrState, inXRSession, sessionVisible,
                  sessionListeners, interrupted >>

\* --------------------------------------------------------- worker actions
Progress(u, d, p, t, r) ==
  [type |-> "PRELOAD_PROGRESS", url |-> u, data |-> d, progress |-> p,
   total |-> t, req |-> r]

ErrorMsg(u, r) ==
  [type |-> "PRELOAD_ERROR", url |-> u, data |-> FALSE, progress |-> 0,
   total |-> 0, req |-> r]

\* a completion message that reports the length of the list as progress
Complete_reportsTotal(p, t, r) ==
  [type |-> "PRELOAD_COMPLETE", url |-> NoUrl, data |-> FALSE, progress |-> t,
   total |-> t, req |-> r]

Complete(p, t, r) ==
  [type |-> "PRELOAD_COMPLETE", url |-> NoUrl, data |-> FALSE, progress |-> p,
   total |-> t, req |-> r]

\* a worker that never looks into its cache: every URL is fetched
preloadImages_ignoresCache(images, idx, completed, cache, r) ==
  IF idx > Len(images)
    THEN [susp |-> FALSE, idx |-> idx, completed |-> completed,
          out |-> << Complete(completed, Len(images), r) >>]
    ELSE [susp |-> TRUE, idx |-> idx, completed |-> completed, out |-> << >>]

RECURSIVE preloadImages(_, _, _, _, _)
\* preloadImages from position idx until it suspends at a fetch or returns:
\* cached URLs are reported without data, the loop's end posts COMPLETE
preloadImages(images, idx, completed, cache, r) ==
  IF idx > Len(images)
    THEN [susp |-> FALSE, idx |-> idx, completed |-> completed,
          out |-> << Complete(completed, Len(images), r) >>]
    ELSE IF images[idx] \in cache
      THEN LET rest == preloadImages(images, idx + 1, completed + 1, cache, r)
           IN [rest EXCEPT !.out =
                 << Progress(images[idx], FALSE, completed + 1, Len(images), r) >>
                 \o rest.out]
      ELSE [susp |-> TRUE, idx |-> idx, completed |-> completed, out |-> << >>]

\* tasks after an invocation ran to its next suspension point
Resume(ts, r, images, res) ==
  IF res.susp
    THEN ts \cup {[req |-> r, images |-> images, idx |-> res.idx,
                   completed |-> res.completed]}
    ELSE ts

\* message listener of the worker: a PRELOAD_IMAGES request is delivered
WorkerOnMessage ==
  /\ workerInbox # << >>
  /\ Len(mainInbox) < MaxInbox
  /\ LET m == Head(workerInbox)
         res == preloadImages(m.images, 1, 0, imageCache, m.req)
     IN /\ tasks' = Resume(tasks, m.req, m.images, res)
        /\ mainInbox' = mainInbox \o res.out
  /\ workerInbox' = Tail(workerInbox)
  /\ UNCHANGED << viewerVars, preloaderVars, nextReq, imageCache, fetchFailures >>
  /\ UNCHANGED sessionVars

\* a worker that records the URL in its cache whether the fetch failed or not
FetchSettled_cachesFailure(cache, u, ok) == cache \cup {u}

\* imageCache after the fetch of u settled: set only on the success path
FetchSettled(cache, u, ok) == IF ok THEN cache \cup {u} ELSE cache

\* the fetch (and arrayBuffer) awaited by invocation t settles
WorkerFetchDone(t, ok) ==
  /\ t \in tasks
  /\ Len(mainInbox) < MaxInbox
  /\ ok \/ fetchFailures < MaxFail
  /\ fetchFailures' = IF ok THEN fetchFailures ELSE fetchFailures + 1
  /\ LET u == t.images[t.idx]
         cache == FetchSettled(imageCache, u, ok)
         done == IF ok THEN t.completed + 1 ELSE t.completed
         first == IF ok THEN Progress(u, TRUE, done, Len(t.images), t.req)
                        ELSE ErrorMsg(u, t.req)
         res == preloadImages(t.images, t.idx + 1, done, cache, t.req)
     IN /\ imageCache' = cache
        /\ tasks' = Resume(tasks \ {t}, t.req, t.images, res)
        /\ mainInbox' = (mainInbox \o << first >>) \o res.out
  /\ UNCHANGED << viewerVars, preloaderVars, nextReq, workerInbox >>
  /\ UNCHANGED sessionVars

\* ------------------------------------------------------ preloader actions
\* PanoramaPreloader.handleWorkerMessage
HandleWorkerMessage ==
  /\ pc = "idle"
  /\ mainInbox # << >>
  /\ LET m == Head(mainInbox)
         set == m.type = "PRELOAD_PROGRESS" /\ m.data
     IN /\ preloadedImages' = IF set THEN preloadedImages \cup {m.url}
                                    ELSE preloadedImages
        /\ preloadOrder' = IF set /\ m.url \notin preloadedImages
                             THEN Append(preloadOrder, m.url)
                             ELSE preloadOrder
        /\ objectUrls' = IF set THEN objectUrls + 1 ELSE objectUrls
  /\ mainInbox' = Tail(mainInbox)
  /\ UNCHANGED << viewerVars, callbackOwner, nextReq, workerInbox, tasks, imageCache,
                  fetchFailures >>
  /\ UNCHANGED sessionVars

\* 'beforeunload': viewer.dispose() clears the scene and the VR overlays and
\* disposes the preloader, which revokes the object URL of every entry its
\* Map holds, clears the Map and terminates the worker
Dispose ==
  /\ pc = "idle"
  /\ initState # "disposed"
  /\ initState' = "disposed"
  /\ currentPhotoDome' = NoDome
  /\ hotspots' = << >>
  /\ SetUI(disposeVRCaption(disposeFloorplanUI(UI)))
  /\ objectUrls' = objectUrls - Cardinality(preloadedImages)
  /\ preloadedImages' = {}
  /\ preloadOrder' = << >>
  /\ workerInbox' = << >>
  /\ tasks' = {}
  /\ imageCache' = {}
  /\ mainInbox' = << >>
  /\ UNCHANGED << dataLoaded, currentPanorama, currentLocationLabel, isMobile,
                  pc, loadArg, caller, navCount, nav, callbackOwner, nextReq,
                  fetchFailures >>
  /\ UNCHANGED << xrVars, interrupted >>

\* ------------------------------------------------- next-state relations
\* the viewer: start-up, navigation by hotspot, texture events
Next ==
  \/ \E ok \in BOOLEAN : InitViewer(ok)
  \/ \E i \in DOMAIN hotspots : HotspotPick(i)
  \/ \E threw \in BOOLEAN : LoadPanoramaDome(threw)
  \/ LoadPanoramaCommit
  \/ DomeTextureLoaded
  \/ DomeTextureError

Spec == Init /\ [][Next]_vars

\* start-up of the viewer, then the worker and the preloader serving the
\* preload requests that start-up posted
PreloadNext ==
  \/ \E ok \in BOOLEAN : InitViewer(ok)
  \/ \E threw \in BOOLEAN : LoadPanoramaDome(threw)
  \/ LoadPanoramaCommit
  \/ WorkerOnMessage
  \/ \E t \in tasks : \E ok \in BOOLEAN : WorkerFetchDone(t, ok)
  \/ HandleWorkerMessage

PreloadSpec == Init /\ [][PreloadNext]_vars

\* start-up with worker and preloader until the page is unloaded
UnloadNext ==
  \/ PreloadNext
  \/ Dispose

UnloadSpec == Init /\ [][UnloadNext]_vars

\* the worker has served every request and the preloader every message
Quiescent == workerInbox = << >> /\ tasks = {} /\ mainInbox = << >>

\* start-up with worker and preloader, and hotspot navigation by a user who
\* clicks once the background work has come to rest
NavPreloadNext ==
  \/ PreloadNext
  \/ Quiescent /\ \E i \in DOMAIN hotspots : HotspotPick(i)

NavPreloadSpec == Init /\ [][NavPreloadNext]_vars

\* a running handler keeps running: the steps of loadPanorama are taken
FairSpec ==
  /\ Spec
  /\ WF_vars(\E threw \in BOOLEAN : LoadPanoramaDome(threw))
  /\ WF_vars(LoadPanoramaCommit)

\* the viewer with XR sessions, VR emulation and floorplan navigation
SessionNext ==
  \/ \E ok \in BOOLEAN : InitViewer(ok)
  \/ \E ok \in BOOLEAN : InitFinish(ok)
  \/ navCount < MaxSessionNav /\ \E i \in DOMAIN hotspots : HotspotPick(i)
  \/ navCount < MaxSessionNav /\ \E n \in Nodes : MarkerClick(n)
  \/ \E threw \in BOOLEAN : LoadPanoramaDome(threw)
  \/ LoadPanoramaCommit
  \/ DomeTextureLoaded
  \/ DomeTextureError
  \/ \E state \in {"ENTERING_XR", "IN_XR", "EXITING_XR", "NOT_IN_XR"} :
       XRStateChanged(state)
  \/ XRSessionInit
  \/ \E visible \in BOOLEAN : SessionVisibility(visible)
  \/ LateVisibility
  \/ SessionEnd
  \/ RenderFrame
  \/ KeyV

SessionSpec == Init /\ [][SessionNext]_vars

\* running handlers keep running and the render loop keeps rendering
SessionFairSpec ==
  /\ SessionSpec
  /\ WF_vars(\E threw \in BOOLEAN : LoadPanoramaDome(threw))
  /\ WF_vars(LoadPanoramaCommit)
  /\ WF_vars(RenderFrame)

\* ----------------------------------------------------------------- claims
\* a step that is a navigateToPanorama call (a hotspot pick)
NavigateCall == navCount' = navCount + 1

\* C1: a navigateTo issued while a transition is in progress is a silent
\* no-op: it starts no second transition, does not interrupt the first and
\* leaves the current node alone.
C1_NavWhileTransitioningIsNoOp ==
  [][(Transitioning /\ NavigateCall /\ HasNode(nav'.to))
       => (/\ pc' = pc
           /\ currentPhotoDome' = currentPhotoDome
           /\ currentPanorama' = currentPanorama)]_vars

\* C2: from A, navigateTo('B') then navigateTo('C') issued before the first
\* transition has finished end at B: the second call is rejected.
C2_SecondRapidCallRejected ==
  (/\ pc = "idle"
   /\ nav.rapid
   /\ nav.prevFrom = "A" /\ nav.prevTo = "B"
   /\ nav.to = "C")
    => currentPanorama = "B"

\* C3: single-flight: at most one fetch per URL is under way at any time,
\* however many requests for that URL were issued before the first resolved.
C3_SingleFlight ==
  \A t1 \in tasks : \A t2 \in tasks :
    t1.images[t1.idx] = t2.images[t2.idx] => t1 = t2

\* C4: capacity invariant: the number of resident preloaded resources never
\* exceeds the configured capacity.
C4_ResidentWithinCapacity ==
  Cardinality(preloadedImages) <= Capacity

\* C5: the dome of the current node is never disposed while that node is
\* still the current node.
C5_CurrentDomeNotDisposed ==
  [][(/\ currentPhotoDome # NoDome
      /\ currentPhotoDome.node = currentPanorama
      /\ currentPhotoDome' = NoDome)
       => currentPanorama' # currentPanorama]_vars

\* C6: pin ordering: the current node changes only after the new dome has
\* taken over the display (its texture is loaded), and in every intermediate
\* state of a navigation the dome of the still-current node exists.
C6_CursorMovesAfterHandOver ==
  [][/\ (currentPanorama' # currentPanorama
           => (currentPhotoDome.node = currentPanorama'
               /\ currentPhotoDome.tex = "ok"))
     /\ (pc' = "cleared" /\ caller' = "nav"
           => currentPhotoDome'.node = currentPanorama')]_vars

\* the last navigation could not load its image
LoadFailed ==
  \/ nav.outcome = "threw"
  \/ nav.outcome = "loaded" /\ currentPhotoDome.tex = "failed"

\* C7: when the load for the target fails, the transition still completes
\* with a fallback: the target is current, a usable dome shows it, and the
\* controller is idle.
C7_FallbackOnLoadFailure ==
  LoadFailed =>
    (/\ pc = "idle"
     /\ currentPanorama = nav.to
     /\ currentPhotoDome.node = nav.to
     /\ currentPhotoDome.tex # "failed")

\* C8: availability: whenever no loadPanorama is running after a start-up
\* with a valid start node, a dome exists and it is the current node's.
C8_DomeAlwaysAvailable ==
  (initState = "done" /\ dataLoaded /\ pc = "idle")
    => (currentPhotoDome # NoDome /\ currentPhotoDome.node = currentPanorama)

C10_NavigateToCurrentIsNoOp ==
  [][(NavigateCall /\ nav'.to = currentPanorama)
       => UNCHANGED << currentPhotoDome, hotspots, currentPanorama, pc >>]_vars

\* C11: following a link whose target is missing from the graph is refused
\* without a crash and without a state change: the current node, the
\* displayed dome and the hotspots are exactly what they were, and no
\* loadPanorama is left running.
C11_DanglingLinkRefused ==
  [][(NavigateCall /\ nav'.to \notin Nodes)
       => UNCHANGED << currentPanorama, currentPhotoDome, hotspots, pc >>]_vars

\* the hotspot of the dangling link of A was picked while A's dome was shown
C11_Witness ==
  /\ nav.outcome = "notfound" /\ nav.to = "Z"
  /\ pc = "idle"
  /\ currentPanorama = "A" /\ currentPhotoDome.node = "A"
  /\ Len(hotspots) = Len(LinksOf("A"))

\* C12: no hotspot exists for a link whose target is absent from the graph:
\* once a node is loaded, every hotspot in the scene leads to a known node.
C12_HotspotsOnlyForKnownTargets ==
  (pc = "idle" /\ dataLoaded) => \A i \in DOMAIN hotspots : hotspots[i].to \in Nodes

\* a step in which an XR session becomes active (onXRSessionInit has run)
SessionStarts == ~inXRSession /\ inXRSession'

\* a step in which the XR session ends (the end handlers have run)
SessionEnds == inXRSession /\ ~inXRSession'

\* C13: onEnterVR is idempotent: invoked again right after it has run for
\* a session, with no exit in between, it leaves the state as it is,
\* including the number of caption containers, of floorplan containers and
\* of per-frame callbacks.
C13_EnterVRTwiceAsOnce ==
  [][SessionStarts
       => ([onEnterVR(UI, currentPanorama) EXCEPT !.enterCalls = 0] = UI)']_vars

\* C14: whichever end notifications arrive, the session's end leaves the
\* viewer out of VR with the desktop UI visible and interactive and no VR
\* caption or floorplan overlay left in the scene, and every further end
\* notification leaves that state as it is.
C14_SessionEndReconciles ==
  [][SessionEnds =>
       (/\ ~isVRActive
        /\ desktopUI.exists /\ desktopUI.isVisible /\ desktopUI.isHitTestVisible
        /\ ~vrCaption /\ captionContainers = 0
        /\ ~floorplanUI /\ floorplanContainers = 0
        /\ onSessionEnd(UI) = UI
        /\ onXRSessionEnded(UI) = UI
        /\ onStateChanged(UI, "EXITING_XR", currentPanorama) = UI
        /\ onStateChanged(UI, "NOT_IN_XR", currentPanorama) = UI
        /\ FrameCheck(UI, currentPanorama) = UI)']_vars

\* C15: when a session becomes active the current node's dome is resident
\* and usable afterwards: the handler re-acquires it when it is absent or
\* failed.
C15_DomeRevalidatedOnSessionStart ==
  [][(SessionStarts /\ dataLoaded)
       => (/\ currentPhotoDome'.node = currentPanorama'
           /\ currentPhotoDome'.tex # "failed")]_vars

\* C16: a transition that a session-state change interrupted does not stay
\* in progress: it is cleared and the controller is idle again.
C16_InterruptedTransitionCleared ==
  (interrupted /\ Transitioning) ~> ~Transitioning

\* C17: the current node changes at a single point only, the commit of a
\* loadPanorama to the node being loaded; session events, the frame check,
\* VR emulation and floorplan handling leave it unchanged.
C17_CursorMovesOnlyInLoadPanorama ==
  [][(currentPanorama' # currentPanorama)
       => (pc = "built" /\ pc' = "idle" /\ currentPanorama' = loadArg)]_vars

\* a floorplan navigation inside a running XR session has moved the cursor
C17_Witness ==
  /\ inXRSession /\ isVRActive
  /\ nav.outcome = "loaded"
  /\ currentPanorama = nav.to /\ currentPanorama # StartNode
  /\ markerCurrent = currentPanorama

\* the keys in order that do not belong to the node n
RECURSIVE Unpinned(_, _)
Unpinned(order, n) ==
  IF order = << >> THEN << >>
  ELSE (IF Head(order).img = n THEN << >> ELSE << Head(order) >>)
         \o Unpinned(Tail(order), n)

\* a step that admits a new key to the preloader's Map
Admits == preloadedImages' \ preloadedImages # {}

\* C18: eviction order: a key admitted when the resident set is at capacity
\* evicts the oldest key that is not the current node's, and only as many
\* as needed; the current node's keys stay.
C18_OldestUnpinnedEvicted ==
  [][(Admits /\ Cardinality(preloadedImages) >= Capacity)
       => LET old == Unpinned(preloadOrder, currentPanorama)
          IN /\ old # << >>
             /\ Head(old) \notin preloadedImages'
             /\ Cardinality(preloadedImages') <= Capacity
             /\ \A u \in preloadedImages :
                  u.img = currentPanorama => u \in preloadedImages']_vars

\* a step in which a fetch settles with a failure
FetchFails == fetchFailures' = fetchFailures + 1

\* the messages a step appended to the worker's output
Posted == SubSeq(mainInbox', Len(mainInbox) + 1, Len(mainInbox'))

\* C19: a failed load is never resident and is not retried: the failing
\* fetch adds the URL neither to the worker cache nor to the preloader, it
\* is reported as PRELOAD_ERROR, the same request goes on behind it without
\* a second fetch of it, and the preloader only ever holds URLs whose fetch
\* succeeded.
C19_FailedLoadNotResident ==
  /\ [][FetchFails =>
          \E t \in tasks \ tasks' :
            /\ imageCache' = imageCache
            /\ preloadedImages' = preloadedImages
            /\ Posted # << >>
            /\ Posted[1] = ErrorMsg(t.images[t.idx], t.req)
            /\ \A t2 \in tasks' : t2.req = t.req => t2.idx > t.idx]_vars
  /\ [][(mainInbox # << >> /\ mainInbox' = Tail(mainInbox)
            /\ Head(mainInbox).type = "PRELOAD_ERROR")
         => preloadedImages' = preloadedImages]_vars
  /\ [](preloadedImages \subseteq imageCache)

\* a fetch has failed and its URL is absent from worker cache and preloader
C19_Witness ==
  \E i \in DOMAIN mainInbox :
    /\ mainInbox[i].type = "PRELOAD_ERROR"
    /\ mainInbox[i].url \notin imageCache
    /\ mainInbox[i].url \notin preloadedImages
    /\ \A t \in tasks : t.images[t.idx] # mainInbox[i].url

\* a step in which the worker takes a request from its inbox
Delivered == workerInbox # << >> /\ workerInbox' = Tail(workerInbox)

\* C20: a resident key is served without a new load: no fetch is started
\* for a URL that is in the worker cache, a request still gets a progress
\* message for each such URL, and what is resident stays resident in the
\* worker and in the preloader.
C20_ResidentServedWithoutFetch ==
  /\ [][\A t \in tasks' \ tasks : t.images[t.idx] \notin imageCache']_vars
  /\ [][Delivered =>
          LET m == Head(workerInbox)
          IN \A i \in DOMAIN m.images :
               (\A j \in 1..i : m.images[j] \in imageCache)
                 => (/\ Len(Posted) >= i
                     /\ Posted[i] = Progress(m.images[i], FALSE, i,
                                             Len(m.images), m.req))]_vars
  /\ [][/\ imageCache \subseteq imageCache'
        /\ preloadedImages \subseteq preloadedImages']_vars

\* a request was answered from the cache for a URL the preloader holds
C20_Witness ==
  \E i \in DOMAIN mainInbox :
    /\ mainInbox[i].type = "PRELOAD_PROGRESS"
    /\ ~mainInbox[i].data
    /\ mainInbox[i].url \in imageCache
    /\ mainInbox[i].url \in preloadedImages

\* a step that completes a navigation: loadPanorama commits for its caller
NavigationCompletes == pc = "built" /\ pc' = "idle" /\ caller = "nav"

\* the requests a step posted to the worker
Requested == SubSeq(workerInbox', Len(workerInbox) + 1, Len(workerInbox'))

\* C21: a completed navigation to N triggers a background prefetch of the
\* standard-quality image of every neighbour of N that is in the graph and
\* not yet resident in the preloader.
C21_NeighboursPrefetched ==
  [][NavigationCompletes =>
       \A i \in DOMAIN LinksOf(loadArg) :
         LET std == Url(TRUE, LinksOf(loadArg)[i].to, "_std.jpg")
         IN (LinksOf(loadArg)[i].to \in Nodes /\ std \notin preloadedImages)
              => \E k \in DOMAIN Requested :
                   \E j \in DOMAIN Requested[k].images :
                     Requested[k].images[j] = std]_vars

\* a navigation to B has completed and the newest request names the
\* standard images of both neighbours of B
C21_Witness ==
  /\ pc = "idle" /\ nav.outcome = "loaded" /\ currentPanorama = "B"
  /\ workerInbox # << >>
  /\ LET imgs == workerInbox[Len(workerInbox)].images
     IN /\ \E j \in DOMAIN imgs : imgs[j] = Url(TRUE, "C", "_std.jpg")
        /\ \E j \in DOMAIN imgs : imgs[j] = Url(TRUE, "A", "_std.jpg")

\* C22: after a completed navigation and the background work it started,
\* every resident resource belongs to the current node or to one of its
\* neighbours.
C22_OnlyCurrentAndNeighboursResident ==
  (/\ pc = "idle" /\ nav.outcome = "loaded"
   /\ workerInbox = << >> /\ tasks = {} /\ mainInbox = << >>)
    => \A u \in preloadedImages :
         \/ u.img = currentPanorama
         \/ \E i \in DOMAIN LinksOf(currentPanorama) :
              LinksOf(currentPanorama)[i].to = u.img

\* C23: background prefetch is fire-and-forget: the step that posts the
\* prefetch also ends the loadPanorama (of start-up or of a navigation), and
\* a navigation issued while posted requests are still outstanding is
\* accepted.
C23_PrefetchFireAndForget ==
  /\ [][(pc = "built" /\ pc' # pc)
         => (pc' = "idle" /\ (caller = "nav" => nav'.outcome = "loaded"))]_vars
  /\ [][(NavigateCall /\ workerInbox # << >> /\ nav'.to \in Nodes)
         => (pc' = "cleared" /\ loadArg' = nav'.to)]_vars

\* a second navigation has completed while the requests of start-up and of
\* the first navigation are still waiting for the worker
C23_Witness ==
  /\ pc = "idle" /\ navCount = 2 /\ nav.outcome = "loaded"
  /\ nav.prevTo \in Nodes /\ nav.prevTo # nav.prevFrom
  /\ Len(workerInbox) >= 3

\* C24: the image of the node that becomes current is requested at the
\* high quality tier on every device class, in a session or not.
C24_TargetAtHighQuality ==
  currentPhotoDome # NoDome => currentPhotoDome.url.sfx = "_hq.jpg"

C26_DesktopUIHiddenInSession ==
  inXRSession => ~Render(UI, currentPanorama).desktopUI.isVisible

\* VR emulation was switched on and off again during the session, which made
\* the desktop UI visible, and the next frame check has hidden it and built
\* the overlays again
C26_Witness ==
  /\ inXRSession /\ isVRActive /\ ~isVREmulationMode
  /\ desktopUI.exists /\ ~desktopUI.isVisible
  /\ vrCaption /\ captionContainers = 1
  /\ floorplanUI /\ floorplanContainers = 2

\* C27: the viewer is put into VR only for an active XR session: isVRActive
\* is true only while the session manager is in a session, and the
\* 'visibilitychange' listener of a session that has ended, told 'visible',
\* runs no onEnterVR and leaves the viewer as it is.
C27_EnterVROnlyWithSession ==
  /\ isVRActive => inXRSession
  /\ (sessionListeners /\ ~inXRSession)
       => LET r == onVisibilityChange(UI, TRUE, currentPanorama)
          IN r.enterCalls = 0 /\ r = UI

\* a step in which the running session becomes hidden
SessionHides == inXRSession /\ inXRSession' /\ sessionVisible /\ ~sessionVisible'

\* C28: a session that becomes hidden stays in VR: the notification leaves
\* isVRActive true and disposes nothing (dome, caption, floorplan and the
\* rest of the VR UI stay as they are), and the frame checks of a hidden
\* session keep the viewer in VR and remove neither caption nor floorplan.
C28_HiddenSessionStaysInVR ==
  /\ [][SessionHides
          => (/\ isVRActive /\ isVRActive'
              /\ currentPhotoDome' = currentPhotoDome
              /\ UNCHANGED uiVars)]_vars
  /\ []((inXRSession /\ ~sessionVisible)
          => LET r == Render(UI, currentPanorama)
             IN /\ r.isVRActive
                /\ vrCaption => r.vrCaption
                /\ floorplanUI => r.floorplanUI
                /\ r.captionContainers >= captionContainers
                /\ r.floorplanContainers >= floorplanContainers)

\* a hidden session with the viewer in VR, its dome, caption and floorplan
C28_Witness ==
  /\ inXRSession /\ ~sessionVisible /\ isVRActive
  /\ currentPhotoDome # NoDome
  /\ vrCaption /\ floorplanUI
  /\ desktopUI.exists /\ ~desktopUI.isVisible

\* what each handler that can reach onEnterVR returns from the current state
EnterVRPaths ==
  {Render(UI, currentPanorama),
   onXRSessionInit([UI EXCEPT !.inXRSession = TRUE], currentPanorama),
   onVisibilityChange(UI, TRUE, currentPanorama),
   toggleVREmulation(UI, currentPanorama)}
    \cup {onStateChanged(UI, st, currentPanorama) :
             st \in {"ENTERING_XR", "IN_XR", "EXITING_XR", "NOT_IN_XR"}}

\* C29: the frame check's re-entrancy ends: from every state, a frame and
\* every handler run onEnterVR at most once, i.e. the frame check nested in
\* onEnterVR's render makes no further onEnterVR call, and a frame whose
\* check finds session and flag agreeing and the desktop UI hidden makes
\* none at all. The same holds for a registered frame check that meets
\* a session while the desktop UI does not exist.
C29_NestedCheckMakesNoFurtherCall ==
  /\ \A r \in EnterVRPaths : r.enterCalls <= 1
  /\ ~desktopUI.exists
       => FrameCheck([UI EXCEPT !.inXRSession = TRUE, !.xrSetup = "ok"],
                     currentPanorama).enterCalls = 1
  /\ (isVRActive = inXRSession /\ ~desktopUI.isVisible)
       => Render(UI, currentPanorama).enterCalls = 0

\* onXRSessionInit has just run onEnterVR, whose render ran the frame check
\* nested, before the helper reports IN_XR
C29_Witness ==
  /\ inXRSession /\ xrState = "ENTERING_XR" /\ isVRActive
  /\ desktopUI.exists /\ ~desktopUI.isVisible
  /\ vrCaption /\ captionContainers = 1
  /\ floorplanUI /\ floorplanContainers = 1

\* C30: the scene holds at most one VR caption container and at most one
\* floorplan container at any time, however session events, VR emulation
\* and navigation interleave.
C30_SingleCaptionAndFloorplan ==
  /\ captionContainers <= 1
  /\ floorplanContainers <= 1

\* a step in which loadPanorama constructs the dome
DomeBuilt == pc = "cleared" /\ pc' = "built"

\* C31: a preloaded image is used on navigation: when the preloader holds
\* the image of the node being loaded in the tier loadPanorama selects, the
\* dome is built from the preloaded object URL, not from the network path.
C31_PreloadedImageUsed ==
  [][(/\ DomeBuilt
      /\ \E u \in preloadedImages :
           u.img = loadArg /\ u.sfx = ImageSuffix(isMobile, isVRActive))
       => currentPhotoDome'.url.sfx = "blob"]_vars

\* C32: after every navigation attempt the hotspots in the scene are those
\* of the links of the current node: a successful load replaces them, a
\* failed or refused load does not leave the current node without them.
C32_HotspotsAreLinksOfCurrent ==
  (pc = "idle" /\ nav.outcome # "none")
    => hotspots = LinksOf(currentPanorama)

\* the labels that name node n: those of the links that lead to it, and the
\* initial label for the start node
LabelsOf(n) ==
  {LinksOf(m)[i].label : <<m, i>> \in
     {<<m, i>> \in Nodes \X (1..4) : i <= Len(LinksOf(m)) /\ LinksOf(m)[i].to = n}}
    \cup (IF n = StartNode THEN {StartLabel} ELSE {})

\* C33: the location label corresponds to the current node: whenever no
\* loadPanorama is running, after any navigation attempt by hotspot or by
\* floorplan marker, currentLocationLabel is a label of the current node.
C33_LabelMatchesCurrentNode ==
  pc = "idle" => currentLocationLabel \in LabelsOf(currentPanorama)

\* the number of PRELOAD_PROGRESS messages among the first j a step posted
PostedOK(j) ==
  Cardinality({i \in 1..j : Posted[i].type = "PRELOAD_PROGRESS"})

\* the step continues request r over images from position idx0 with c0
\* images completed so far: one message per image passed, in list order,
\* progress counting on from c0, and PRELOAD_COMPLETE exactly when the
\* list is exhausted
ProtocolStep(r, images, idx0, c0) ==
  LET n == Len(images)
      next == {t \in tasks' : t.req = r}
      fin == next = {}
      idx1 == IF fin THEN n + 1 ELSE (CHOOSE t \in next : TRUE).idx
      k == idx1 - idx0
  IN /\ Cardinality(next) <= 1
     /\ k >= 0
     /\ Len(Posted) = k + (IF fin THEN 1 ELSE 0)
     /\ \A j \in 1..k :
          /\ Posted[j].req = r
          /\ Posted[j].url = images[idx0 + j - 1]
          /\ Posted[j].type \in {"PRELOAD_PROGRESS", "PRELOAD_ERROR"}
          /\ Posted[j].type = "PRELOAD_PROGRESS"
               => (/\ Posted[j].progress = c0 + PostedOK(j)
                   /\ Posted[j].progress <= n
                   /\ Posted[j].total = n)
     /\ \A t \in next :
          /\ t.images = images
          /\ t.idx <= n
          /\ t.completed = c0 + PostedOK(k)
     /\ fin => (/\ Posted[k + 1].type = "PRELOAD_COMPLETE"
                /\ Posted[k + 1].req = r
                /\ Posted[k + 1].progress = c0 + PostedOK(k)
                /\ Posted[k + 1].total = n)

\* C34: worker request protocol: for every request, whatever the fetch
\* outcomes, the worker posts one message per image in list order
\* (PRELOAD_PROGRESS for a fetched or cached image, PRELOAD_ERROR for a
\* failed one), goes on behind a failure, numbers progress upwards by one per
\* non-failed image and never above the length of the list, and posts
\* PRELOAD_COMPLETE once, after the last image, with the number of
\* non-failed images; no invocation is left for a completed request.
C34_WorkerRequestProtocol ==
  /\ [][Delivered =>
          LET m == Head(workerInbox)
          IN ProtocolStep(m.req, m.images, 1, 0)]_vars
  /\ [][(tasks \ tasks' # {}) =>
          \E t \in tasks \ tasks' :
            /\ tasks \ tasks' = {t}
            /\ ProtocolStep(t.req, t.images, t.idx, t.completed)
            /\ Posted # << >>
            /\ Posted[1].type = IF FetchFails THEN "PRELOAD_ERROR"
                                              ELSE "PRELOAD_PROGRESS"
            /\ \A u \in tasks' : u.req = t.req => u.idx > t.idx]_vars
  /\ [](\A t \in tasks :
          /\ t.completed < t.idx
          /\ \A u \in tasks : u.req = t.req => u = t
          /\ \A i \in DOMAIN workerInbox : workerInbox[i].req > t.req
          /\ \A i \in DOMAIN mainInbox :
               mainInbox[i].req = t.req => mainInbox[i].type # "PRELOAD_COMPLETE")

\* a request has completed although one of its images failed: the worker
\* went on behind the failure and reports one image less than the list has
C34_Witness ==
  \E i \in DOMAIN mainInbox :
    /\ mainInbox[i].type = "PRELOAD_COMPLETE"
    /\ mainInbox[i].total > 1
    /\ mainInbox[i].progress = mainInbox[i].total - 1
    /\ \A t \in tasks : t.req # mainInbox[i].req

\* a step in which the preloader handles the oldest message of the worker
Handled == mainInbox # << >> /\ mainInbox' = Tail(mainInbox)

\* C35: callback routing under overlapping requests: the preloader passes a
\* request's progress and completion to the callbacks given with that
\* request, i.e. when it handles a PRELOAD_PROGRESS or PRELOAD_COMPLETE
\* message the callbacks it holds are those of the message's request.
C35_CallbacksOfOwnRequest ==
  [][(Handled /\ Head(mainInbox).type \in {"PRELOAD_PROGRESS", "PRELOAD_COMPLETE"})
       => callbackOwner = Head(mainInbox).req]_vars

\* C36: no object URL is leaked: every object URL the preloader created and
\* has not revoked is the one stored in preloadedImages for its image URL,
\* also when data for the same URL arrives more than once, and after
\* dispose none is left and preloadedImages is empty.
C36_NoObjectUrlLeaked ==
  /\ objectUrls = Cardinality(preloadedImages)
  /\ initState = "disposed" => (objectUrls = 0 /\ preloadedImages = {})

====
